---- MODULE Spec2Model ----
(***************************************************************************)
(* Model of tools/mrbc/mrbc.c: the mrbc command line front end.            *)
(*                                                                         *)
(* One behaviour is one run of main(): parse_args scans argv one token per *)
(* step, resolves the output, and main drives the compiler and one of the  *)
(* two dump entry points.  C strings are sequences of one-character        *)
(* strings so that strlen, strrchr, strcpy and strcmp can be modelled by   *)
(* what they do.  The file system, the compiler and the dump functions are *)
(* external: their results are nondeterministic choices.                   *)
(***************************************************************************)
EXTENDS Integers, Sequences, FiniteSets, TLC

\* ------------------------------------------------------------------ bounds
\* Longest argument list (argv without the program name).
MaxArgs == 3

\* ------------------------------------------------------- program constants
EXIT_SUCCESS == 0
EXIT_FAILURE == 1
\* Return codes of the dump functions (mruby/dump.h) that main looks at.
MRB_DUMP_OK == 0
MRB_DUMP_WRITE_FAULT == -2
MRB_DUMP_INVALID_ARGUMENT == -7

RITEBIN_EXT == <<".", "m", "r", "b">>
C_EXT == <<".", "c">>

\* A null char* (distinct from every C string, the empty string included).
NULL == <<"NULL">>
\* FILE* values.
NULLFP == [fd |-> "NULL", path |-> <<>>]
stdin == [fd |-> "stdin", path |-> <<>>]
stdout == [fd |-> "stdout", path |-> <<>>]
RFile(p) == [fd |-> "r", path |-> p]
WFile(p) == [fd |-> "wb", path |-> p]

\* ------------------------------------------------------------- the tokens
\* Program files.
F_ext == <<"f", ".", "r">>
F_noext == <<"f">>
F_dotdir == <<".", "/", "f">>
F_dotdir_ext == <<".", "/", "f", ".", "r">>
ProgramFiles == {F_ext, F_noext, F_dotdir, F_dotdir_ext}

T_dash == <<"-">>
T_c == <<"-", "c">>
T_g == <<"-", "g">>
T_v == <<"-", "v">>
T_x == <<"-", "x">>
T_o == <<"-", "o">>
T_o_a == <<"-", "o", "a">>
T_o_dash == <<"-", "o", "-">>
T_B == <<"-", "B">>
T_B_m == <<"-", "B", "m">>
T_version == <<"-", "-", "v", "e", "r", "s", "i", "o", "n">>
T_verbose == <<"-", "-", "v", "e", "r", "b", "o", "s", "e">>
T_copyright == <<"-", "-", "c", "o", "p", "y", "r", "i", "g", "h", "t">>
T_bogus == <<"-", "-", "b">>

Tokens ==
  ProgramFiles \cup
  {T_dash, T_c, T_g, T_v, T_x, T_o, T_o_a, T_o_dash, T_B, T_B_m,
   T_version, T_verbose, T_copyright, T_bogus}

\* Every list of up to MaxArgs tokens.
ShortLists == UNION {[1..k -> Tokens] : k \in 0..MaxArgs}

\* Every ordering of one program file with at most one each of -o<path>,
\* -B<name>, -c, -g and -v.
Orderings(S) ==
  {f \in [1..Cardinality(S) -> S] : \A a, b \in 1..Cardinality(S) :
                                       f[a] = f[b] => a = b}
OrderedLists ==
  UNION {Orderings({F_ext} \cup S \cup O) :
           S \in SUBSET {T_B_m, T_c, T_g, T_v},
           O \in {{}, {T_o_a}, {T_o_dash}}}

ArgLists == ShortLists \cup OrderedLists

\* ------------------------------------------------------- string functions
\* (*argv) + k: the string from its k-th character (0-based) on.
Skip(s, k) == SubSeq(s, k + 1, Len(s))

\* The first c instead of the last (strchr).
strrchr_first(s, c) ==
  LET hits == {k \in 1..Len(s) : s[k] = c}
  IN IF hits = {} THEN 0 ELSE CHOOSE k \in hits : \A j \in hits : k <= j

\* strrchr(s, c) as the 1-based index of the last c in s, 0 for NULL.
strrchr(s, c) ==
  LET hits == {k \in 1..Len(s) : s[k] = c}
  IN IF hits = {} THEN 0 ELSE CHOOSE k \in hits : \A j \in hits : j <= k

\* get_outfilename: a copy of infile; with a non-empty ext, ext is copied
\* over the copy from its last '.', or from its end when it has none.
get_outfilename(inf, ext) ==
  IF ext # <<>>
    THEN LET p == strrchr(inf, ".")
         IN IF p = 0 THEN inf \o ext ELSE SubSeq(inf, 1, p - 1) \o ext
    ELSE inf

\* ---------------------------------------------------------------- state
VARIABLES
  argv,       \* the argument list after the program name
  i,          \* parse_args: index of the token the loop is at
  pc,         \* position in main / parse_args
  args,       \* struct _args
  infile,     \* parse_args local
  outfile,    \* parse_args local
  result,     \* parse_args local
  n,          \* main local
  mrb,        \* the mrb_state: "open" or "closed"
  openFiles,  \* FILE* obtained from fopen and not yet fclose'd
  created,    \* paths fopen(.., "wb") has created or truncated
  out,        \* what was printed, in order
  calls,      \* calls made to the compiler and the dump functions, in order
  exitCode    \* -1 while running, then the process's exit code

vars == <<argv, i, pc, args, infile, outfile, result, n, mrb, openFiles,
          created, out, calls, exitCode>>

args_zero ==
  [rfp |-> NULLFP, wfp |-> NULLFP, filename |-> NULL, initname |-> NULL,
   ext |-> NULL, check_syntax |-> FALSE, verbose |-> FALSE,
   debug_info |-> FALSE]

\* main up to the call of parse_args, and parse_args up to its loop.
Init ==
  /\ argv \in ArgLists
  /\ i = 1
  /\ pc = "scan"
  /\ args = [args_zero EXCEPT !.ext = RITEBIN_EXT]
  /\ infile = NULL
  /\ outfile = NULL
  /\ result = EXIT_SUCCESS
  /\ n = -1
  /\ mrb = "open"
  /\ openFiles = {}
  /\ created = {}
  /\ out = <<>>
  /\ calls = <<>>
  /\ exitCode = -1

\* ------------------------------------------------------------- helpers
\* cleanup(): fclose rfp and wfp when set, then mrb_close.
cleanup_files(a, files) == files \ {a.rfp, a.wfp}
cleanup_mrb == "closed"

Scanning == pc = "scan" /\ i <= Len(argv)
\* **argv == '-'
IsSwitch(arg) == Len(arg) > 0 /\ arg[1] = "-"
\* A switch token that is not the lone "-", with (*argv)[1] = c.
AtSwitch(c) ==
  /\ Scanning
  /\ IsSwitch(argv[i])
  /\ Len(argv[i]) # 1
  /\ argv[i][2] = c

\* The loop's argc--, argv++ after a `break` out of the switch.
NextArg == i' = i + 1 /\ pc' = "scan"
\* `goto exit` with the given result.
GotoExit(r) == result' = r /\ pc' = "exit" /\ i' = i

\* ---------------------------------------------------- parse_args: the loop
\* The stream a lone "-" binds: left unbound.
LoneDashInput_unbound == NULLFP

\* The stream a lone "-" binds.
LoneDashInput == stdin

\* The loop going on to the next token after the lone "-".
BreakLoop_continues == i' = i + 1 /\ pc' = "scan"

\* `break` out of the for loop: on to the code after the loop.
BreakLoop == pc' = "resolve" /\ i' = i

\* A lone "-": the input is stdin and the loop is left.
ScanLoneDash ==
  /\ Scanning
  /\ IsSwitch(argv[i])
  /\ Len(argv[i]) = 1
  /\ infile' = T_dash
  /\ args' = [args EXCEPT !.filename = T_dash, !.rfp = LoneDashInput]
  /\ BreakLoop
  /\ UNCHANGED <<argv, outfile, result, n, mrb, openFiles, created, out,
                 calls, exitCode>>

\* case 'o'
ScanOutfile ==
  /\ AtSwitch("o")
  /\ IF outfile # NULL
       THEN /\ out' = Append(out, "already specified")
            /\ GotoExit(EXIT_FAILURE)
            /\ UNCHANGED outfile
       ELSE /\ outfile' = get_outfilename(Skip(argv[i], 2), <<>>)
            /\ NextArg
            /\ UNCHANGED <<out, result>>
  /\ UNCHANGED <<argv, args, infile, n, mrb, openFiles, created, calls,
                 exitCode>>

\* The name after -B never taken to be missing.
EmptyInitname_never(name) == FALSE

\* *args->initname == '\0'
EmptyInitname(name) == name = <<>>

\* case 'B'
ScanInitname ==
  /\ AtSwitch("B")
  /\ args' = [args EXCEPT !.ext = C_EXT, !.initname = Skip(argv[i], 2)]
  /\ IF EmptyInitname(Skip(argv[i], 2))
       THEN /\ out' = Append(out, "function name not specified")
            /\ GotoExit(EXIT_FAILURE)
       ELSE /\ NextArg
            /\ UNCHANGED <<out, result>>
  /\ UNCHANGED <<argv, infile, outfile, n, mrb, openFiles, created, calls,
                 exitCode>>

\* case 'c'
ScanCheckSyntax ==
  /\ AtSwitch("c")
  /\ args' = [args EXCEPT !.check_syntax = TRUE]
  /\ NextArg
  /\ UNCHANGED <<argv, infile, outfile, result, n, mrb, openFiles, created,
                 out, calls, exitCode>>

\* if(!args->verbose) mrb_show_version(mrb);
PrintsBanner(a) == ~a.verbose

\* case 'v'
ScanVerbose ==
  /\ AtSwitch("v")
  /\ out' = IF PrintsBanner(args) THEN Append(out, "version") ELSE out
  /\ args' = [args EXCEPT !.verbose = TRUE]
  /\ NextArg
  /\ UNCHANGED <<argv, infile, outfile, result, n, mrb, openFiles, created,
                 calls, exitCode>>

\* case 'g'
ScanDebug ==
  /\ AtSwitch("g")
  /\ args' = [args EXCEPT !.debug_info = TRUE]
  /\ NextArg
  /\ UNCHANGED <<argv, infile, outfile, result, n, mrb, openFiles, created,
                 out, calls, exitCode>>

\* The banner printed and the scan resumed at the next token.
ExitInScan_resumes(banner) ==
  /\ out' = Append(out, banner)
  /\ NextArg
  /\ UNCHANGED <<argv, args, infile, outfile, result, n, mrb, openFiles,
                 created, calls, exitCode>>

\* exit(EXIT_SUCCESS) from inside parse_args: the process ends there, with
\* nothing closed or released by the program.
ExitInScan(banner) ==
  /\ out' = Append(out, banner)
  /\ exitCode' = EXIT_SUCCESS
  /\ pc' = "done"
  /\ UNCHANGED <<argv, i, args, infile, outfile, result, n, mrb, openFiles,
                 created, calls>>

\* case '-'
ScanLong ==
  /\ AtSwitch("-")
  /\ LET name == Skip(argv[i], 2) IN
       IF name = Skip(T_version, 2)
         THEN ExitInScan("version")
       ELSE IF name = Skip(T_verbose, 2)
         THEN /\ args' = [args EXCEPT !.verbose = TRUE]
              /\ NextArg
              /\ UNCHANGED <<argv, infile, outfile, result, n, mrb,
                             openFiles, created, out, calls, exitCode>>
       ELSE IF name = Skip(T_copyright, 2)
         THEN ExitInScan("copyright")
       ELSE /\ GotoExit(EXIT_FAILURE)
            /\ UNCHANGED <<argv, args, infile, outfile, n, mrb, openFiles,
                           created, out, calls, exitCode>>

\* default: any other switch character is skipped.
ScanOtherSwitch ==
  /\ Scanning
  /\ IsSwitch(argv[i])
  /\ Len(argv[i]) # 1
  /\ argv[i][2] \notin {"o", "B", "c", "v", "g", "-"}
  /\ NextArg
  /\ UNCHANGED <<argv, args, infile, outfile, result, n, mrb, openFiles,
                 created, out, calls, exitCode>>

\* The result left in `result` when the program file cannot be opened.
CannotOpenResult == result

\* Every non-switch token taken as the program file.
InputUnset_always(a) == TRUE

\* args->rfp == NULL
InputUnset(a) == a.rfp = NULLFP

\* The loop left at the program file.
AfterProgramFile_breaks == pc' = "resolve" /\ i' = i

\* After the program file is opened the loop goes on to the next token.
AfterProgramFile == NextArg

\* A non-switch token while no input is open: it names the program file.
\* Whether fopen succeeds is the file system's choice.
ScanProgramFile ==
  /\ Scanning
  /\ ~IsSwitch(argv[i])
  /\ InputUnset(args)
  /\ infile' = argv[i]
  /\ \E ok \in BOOLEAN :
       IF ok
         THEN /\ args' = [args EXCEPT !.filename = argv[i],
                                      !.rfp = RFile(argv[i])]
              /\ openFiles' = openFiles \cup {RFile(argv[i])}
              /\ AfterProgramFile
              /\ UNCHANGED <<out, result>>
         ELSE /\ args' = [args EXCEPT !.filename = argv[i]]
              /\ out' = Append(out, "cannot open program file")
              /\ GotoExit(CannotOpenResult)
              /\ UNCHANGED openFiles
  /\ UNCHANGED <<argv, outfile, n, mrb, created, calls, exitCode>>

\* A non-switch token while an input is open is skipped.
ScanExtraFile ==
  /\ Scanning
  /\ ~IsSwitch(argv[i])
  /\ ~InputUnset(args)
  /\ NextArg
  /\ UNCHANGED <<argv, args, infile, outfile, result, n, mrb, openFiles,
                 created, out, calls, exitCode>>

\* argc reached 0.
ScanEnd ==
  /\ pc = "scan"
  /\ i > Len(argv)
  /\ pc' = "resolve"
  /\ UNCHANGED <<argv, i, args, infile, outfile, result, n, mrb, openFiles,
                 created, out, calls, exitCode>>

\* ------------------------------------------- parse_args: after the loop
\* A file name derived from the input whatever it is.
DefaultOutfile_derived(inf, ext) == get_outfilename(inf, ext)

\* The output path when none was given with -o.
DefaultOutfile(inf, ext) ==
  IF inf = T_dash THEN inf ELSE get_outfilename(inf, ext)

\* The output path never taken to mean stdout.
IsStdoutPath_never(o) == FALSE

\* strcmp("-", outfile) == 0
IsStdoutPath(o) == o = T_dash

\* The output resolved even in syntax-check mode.
ResolvesOutput_always(a) == TRUE

\* The output left to be opened later.
ResolvesOutput_never(a) == FALSE

\* Whether the output is resolved at all.
ResolvesOutput(a) == ~a.check_syntax

\* No input: the scan's result kept.
NoInputResult_kept == result

\* The result when the scan found no input.
NoInputResult == EXIT_FAILURE

Resolve ==
  /\ pc = "resolve"
  /\ pc' = "exit"
  /\ IF infile = NULL
       THEN /\ result' = NoInputResult
            /\ UNCHANGED <<outfile, args, openFiles, created, out>>
     ELSE IF ~ResolvesOutput(args)
       THEN UNCHANGED <<result, outfile, args, openFiles, created, out>>
     ELSE LET o == IF outfile = NULL
                     THEN DefaultOutfile(infile, args.ext)
                     ELSE outfile
          IN /\ outfile' = o
             /\ IF IsStdoutPath(o)
                  THEN /\ args' = [args EXCEPT !.wfp = stdout]
                       /\ UNCHANGED <<result, openFiles, created, out>>
                  ELSE \E ok \in BOOLEAN :
                         IF ok /\ o # <<>>
                           THEN /\ args' = [args EXCEPT !.wfp = WFile(o)]
                                /\ openFiles' = openFiles \cup {WFile(o)}
                                /\ created' = created \cup {o}
                                /\ UNCHANGED <<result, out>>
                           ELSE /\ out' = Append(out, "cannot open output file")
                                /\ result' = EXIT_FAILURE
                                /\ UNCHANGED <<args, openFiles, created>>
  /\ UNCHANGED <<argv, i, infile, n, mrb, calls, exitCode>>

\* ----------------------------------------------------------------- main
\* The exit label of parse_args, its return, and main's test of the result.
AfterParse ==
  /\ pc = "exit"
  /\ n' = result
  /\ IF result = EXIT_FAILURE \/ args.rfp = NULLFP
       THEN /\ openFiles' = cleanup_files(args, openFiles)
            /\ mrb' = cleanup_mrb
            /\ out' = Append(out, "usage")
            /\ exitCode' = result
            /\ pc' = "done"
       ELSE /\ pc' = "compile"
            /\ UNCHANGED <<openFiles, mrb, out, exitCode>>
  /\ UNCHANGED <<argv, i, args, infile, outfile, result, created, calls>>

\* The compiler's result never taken as a failure.
CompileFailed_never(ok) == FALSE

\* mrb_undef_p(result) || mrb_fixnum(result) < 0, for a compile that
\* succeeded (ok) or not.
CompileFailed(ok) == ~ok

\* mrbc_context_new .. mrb_load_file_cxt and the test of its result.
Compile ==
  /\ pc = "compile"
  /\ \E ok \in BOOLEAN :
       /\ calls' = Append(calls, [op |-> "compile", filename |-> args.filename,
                                  rfp |-> args.rfp,
                                  dump_result |-> args.verbose,
                                  no_exec |-> TRUE, ok |-> ok])
       /\ IF ~CompileFailed(ok)
         THEN /\ pc' = "compiled"
              /\ UNCHANGED <<openFiles, mrb, exitCode>>
         ELSE /\ openFiles' = cleanup_files(args, openFiles)
              /\ mrb' = cleanup_mrb
              /\ exitCode' = EXIT_FAILURE
              /\ pc' = "done"
  /\ UNCHANGED <<argv, i, args, infile, outfile, result, n, created, out>>

\* if (args.check_syntax)
SyntaxOK ==
  /\ pc = "compiled"
  /\ args.check_syntax
  /\ out' = Append(out, "Syntax OK")
  /\ openFiles' = cleanup_files(args, openFiles)
  /\ mrb' = cleanup_mrb
  /\ exitCode' = EXIT_SUCCESS
  /\ pc' = "done"
  /\ UNCHANGED <<argv, i, args, infile, outfile, result, n, created, calls>>

\* The exit code after a dump call that returned rc without being rejected.
DumpExitCode(rc) == EXIT_SUCCESS

\* The C source format never chosen.
UsesCFunc_never(a) == FALSE

\* if (args.initname)
UsesCFunc(a) == a.initname # NULL

\* if (args.initname): mrb_dump_irep_cfunc, then the end of main.
DumpCFunc ==
  /\ pc = "compiled"
  /\ ~args.check_syntax
  /\ UsesCFunc(args)
  /\ calls' = Append(calls, [op |-> "cfunc", debug_info |-> args.debug_info,
                             wfp |-> args.wfp, initname |-> args.initname])
  /\ \E rc \in {MRB_DUMP_OK, MRB_DUMP_WRITE_FAULT, MRB_DUMP_INVALID_ARGUMENT} :
       /\ n' = rc
       /\ IF rc = MRB_DUMP_INVALID_ARGUMENT
            THEN /\ out' = Append(out, "invalid symbol name")
                 /\ exitCode' = EXIT_FAILURE
                 /\ UNCHANGED <<openFiles, mrb>>
            ELSE /\ openFiles' = cleanup_files(args, openFiles)
                 /\ mrb' = cleanup_mrb
                 /\ exitCode' = DumpExitCode(rc)
                 /\ UNCHANGED out
  /\ pc' = "done"
  /\ UNCHANGED <<argv, i, args, infile, outfile, result, created>>

\* else: mrb_dump_irep_binary, then the end of main.
DumpBinary ==
  /\ pc = "compiled"
  /\ ~args.check_syntax
  /\ ~UsesCFunc(args)
  /\ calls' = Append(calls, [op |-> "binary", debug_info |-> args.debug_info,
                             wfp |-> args.wfp, initname |-> NULL])
  /\ \E rc \in {MRB_DUMP_OK, MRB_DUMP_WRITE_FAULT, MRB_DUMP_INVALID_ARGUMENT} :
       /\ n' = rc
       /\ exitCode' = DumpExitCode(rc)
  /\ openFiles' = cleanup_files(args, openFiles)
  /\ mrb' = cleanup_mrb
  /\ pc' = "done"
  /\ UNCHANGED <<argv, i, args, infile, outfile, result, created, out>>

Next ==
  \/ ScanLoneDash
  \/ ScanOutfile
  \/ ScanInitname
  \/ ScanCheckSyntax
  \/ ScanVerbose
  \/ ScanDebug
  \/ ScanLong
  \/ ScanOtherSwitch
  \/ ScanProgramFile
  \/ ScanExtraFile
  \/ ScanEnd
  \/ Resolve
  \/ AfterParse
  \/ Compile
  \/ SyntaxOK
  \/ DumpCFunc
  \/ DumpBinary

Spec == Init /\ [][Next]_vars

TypeOK ==
  /\ pc \in {"scan", "resolve", "exit", "compile", "compiled", "done"}
  /\ exitCode \in {-1, EXIT_SUCCESS, EXIT_FAILURE}
  /\ (pc = "done") = (exitCode # -1)
  /\ mrb \in {"open", "closed"}

\* ================================================================ claims
Range(s) == {s[k] : k \in 1..Len(s)}
Printed(msg) == msg \in Range(out)
Called(op) == \E k \in 1..Len(calls) : calls[k].op = op
Dumped == Called("cfunc") \/ Called("binary")

\* Tokens of the argument list, by what they are.
IsProgramFileToken(t) == ~IsSwitch(t)
IsSwitchWith(t, c) == IsSwitch(t) /\ Len(t) # 1 /\ t[2] = c
IsBannerToken(t) == t \in {T_version, T_copyright}
HasSwitch(c) == \E k \in 1..Len(argv) : IsSwitchWith(argv[k], c)
NoBannerToken == \A k \in 1..Len(argv) : ~IsBannerToken(argv[k])
\* No program-file token and no lone "-".
InputOmitted ==
  \A k \in 1..Len(argv) : IsSwitch(argv[k]) /\ argv[k] # T_dash
\* The token at k is a usage error: a second -o, a -B without a name, or a
\* long switch that is none of the three known ones.
UsageErrorToken(k) ==
  \/ /\ IsSwitchWith(argv[k], "o")
     /\ \E j \in 1..(k - 1) : IsSwitchWith(argv[j], "o")
  \/ argv[k] = T_B
  \/ /\ IsSwitchWith(argv[k], "-")
     /\ argv[k] \notin {T_version, T_verbose, T_copyright}
NoUsageErrorToken == \A k \in 1..Len(argv) : ~UsageErrorToken(k)
\* The scan was left at token i (by goto exit, exit() or the lone "-").
StoppedAt(k) == pc # "scan" /\ i = k /\ k <= Len(argv)
\* The program file named on the command line could not be opened.
InputOpenFailed ==
  /\ pc \notin {"scan", "resolve"}
  /\ infile \notin {NULL, T_dash}
  /\ args.rfp = NULLFP

\* ---------------------------------------------------------------- C1
\* C1: when the program file cannot be opened, the run reports "cannot open
\* program file", never calls the compiler, opens no output stream, and
\* exits with a non-zero code.
C1_CannotOpenInputFails ==
  (pc = "done" /\ InputOpenFailed) =>
    /\ Printed("cannot open program file")
    /\ calls = <<>>
    /\ args.wfp = NULLFP
    /\ created = {}
    /\ exitCode # EXIT_SUCCESS

\* ---------------------------------------------------------------- C2
\* C2: when the dump call made after a successful compile returns anything
\* but MRB_DUMP_OK, the last thing printed is an error report (not the -v
\* banner) and the exit code is non-zero.
C2_DumpFailureExitsNonZero ==
  (pc = "done" /\ Dumped /\ n # MRB_DUMP_OK) =>
    /\ exitCode # EXIT_SUCCESS
    /\ out # <<>>
    /\ out[Len(out)] \notin {"version", "usage"}

\* ---------------------------------------------------------------- C3
\* C3: when the process has terminated, every stream it opened has been
\* closed and the mrb_state has been released.
C3_AllReleasedAtExit ==
  pc = "done" => (openFiles = {} /\ mrb = "closed")

\* ---------------------------------------------------------------- C4
\* C4: an argument list with no program file, no lone "-" and no --version
\* or --copyright ends with the usage text shown, the compiler never
\* called, no output opened, and a non-zero exit code.
C4_NoInputFails ==
  (pc = "done" /\ InputOmitted /\ NoBannerToken)
    => /\ Printed("usage")
       /\ calls = <<>>
       /\ args.wfp = NULLFP
       /\ exitCode = EXIT_FAILURE

\* A run of switches only, none of them aborting, has ended.
C4_Witness ==
  /\ pc = "done"
  /\ argv = <<T_c, T_g, T_B_m>>
  /\ Printed("usage")
  /\ exitCode = EXIT_FAILURE

\* ---------------------------------------------------------------- C5
\* C5 as stated: with the program file omitted, the input is stdin and is
\* compiled, as with a lone "-".
C5_OmittedReadsStdin ==
  (pc = "done" /\ InputOmitted /\ NoUsageErrorToken /\ NoBannerToken)
    => (args.rfp = stdin /\ Called("compile"))

\* C5 amended: with the program file omitted nothing is read: no input is
\* bound, the compiler is not called and the exit code is non-zero; the
\* input is stdin exactly when the scan stopped at a lone "-".
C5_StdinOnlyByLoneDash ==
  /\ (pc = "done" /\ InputOmitted) =>
       (args.rfp = NULLFP /\ ~Called("compile")
        /\ (NoBannerToken => exitCode # EXIT_SUCCESS))
  /\ (args.rfp = stdin) = (StoppedAt(i) /\ argv[i] = T_dash)

\* The program file was omitted and the run has ended without reading.
C5_Witness ==
  /\ pc = "done"
  /\ argv = <<T_g>>
  /\ args.rfp = NULLFP
  /\ calls = <<>>

\* ---------------------------------------------------------------- C6
\* The output path was derived from the program file's path: parse_args
\* has resolved an output although argv holds no -o.
OutputDerived ==
  /\ ~HasSwitch("o")
  /\ outfile # NULL
  /\ infile \notin {NULL, T_dash}
\* k is the '.' that starts the extension of path: a '.' of the final path
\* component with no '.' after it.
ExtensionAt(path, k) ==
  /\ k \in 1..Len(path)
  /\ path[k] = "."
  /\ \A j \in (k + 1)..Len(path) : path[j] \notin {".", "/"}
HasExtension(path) == \E k \in 1..Len(path) : ExtensionAt(path, k)
\* The extension of the format argv selects, and the name the last -B gave.
FormatExt == IF HasSwitch("B") THEN C_EXT ELSE RITEBIN_EXT
LastInitname ==
  LET ks == {k \in 1..Len(argv) : IsSwitchWith(argv[k], "B")}
      last == CHOOSE k \in ks : \A j \in ks : j <= k
  IN Skip(argv[last], 2)
\* The scan reached the end of argv and parse_args succeeded with an input
\* bound.
Resolved ==
  /\ pc \in {"exit", "compile", "compiled", "done"}
  /\ i > Len(argv)
  /\ result = EXIT_SUCCESS
  /\ args.rfp # NULLFP

\* C6: for a program file with an extension, no -o and no -c, the derived
\* output path is the input path with everything from its last '.' replaced
\* by ".mrb", or by ".c" when a -B<name> is given anywhere in argv (and then
\* the symbol name is <name>); and whenever such a run resolves, the output
\* path has been derived.
C6_DerivedReplacesExtension ==
  /\ (OutputDerived /\ HasExtension(infile)) =>
       /\ \E k \in 1..Len(infile) :
            /\ ExtensionAt(infile, k)
            /\ outfile = SubSeq(infile, 1, k - 1) \o FormatExt
       /\ HasSwitch("B") => args.initname = LastInitname
       /\ ~HasSwitch("B") => args.initname = NULL
  /\ (Resolved /\ ~HasSwitch("o") /\ ~HasSwitch("c") /\ HasExtension(infile)) =>
       (OutputDerived /\ args.wfp = WFile(outfile))

\* -B given after the program file: the output is still the .c file.
C6_Witness ==
  /\ pc = "done"
  /\ argv = <<F_dotdir_ext, T_B_m>>
  /\ outfile = <<".", "/", "f", ".", "c">>
  /\ args.initname = <<"m">>
  /\ Called("cfunc")

\* ---------------------------------------------------------------- C7
\* C7: for a program file whose final path component has no '.', and no -o,
\* the derived output path is the whole input path followed by the format's
\* extension.
C7_DerivedAppendsExtension ==
  (OutputDerived /\ ~HasExtension(infile)) => outfile = infile \o FormatExt

\* ---------------------------------------------------------------- C8
\* C8: a usage error (a second -o, a -B with no name, an unknown long
\* switch) ends the scan at its token: no later token is scanned, its
\* message is printed, parse_args fails, no output is opened, the compiler
\* is never called, and the run ends with the usage text and a non-zero
\* exit code.
C8_UsageErrorAborts ==
  /\ \A k \in 1..Len(argv) : UsageErrorToken(k) => i <= k
  /\ \A k \in 1..Len(argv) :
       (UsageErrorToken(k) /\ StoppedAt(k)) =>
         /\ pc \in {"exit", "done"}
         /\ result = EXIT_FAILURE
         /\ args.wfp = NULLFP
         /\ created = {}
         /\ calls = <<>>
         /\ IsSwitchWith(argv[k], "o") => Printed("already specified")
         /\ IsSwitchWith(argv[k], "B") => Printed("function name not specified")
         /\ pc = "done" =>
              (Printed("usage") /\ exitCode = EXIT_FAILURE /\ mrb = "closed")

\* A -B with no name after the program file was opened has ended the run.
C8_Witness ==
  /\ pc = "done"
  /\ argv = <<F_ext, T_B, T_g>>
  /\ i = 2
  /\ out = <<"function name not specified", "usage">>
  /\ exitCode = EXIT_FAILURE

\* ---------------------------------------------------------------- C9
\* C9: once -c has been scanned, no output stream is bound or opened, no
\* file is created, and neither dump function is called.
C9_CheckSyntaxOpensNoOutput ==
  (\E k \in 1..(i - 1) : IsSwitchWith(argv[k], "c"))
    => /\ args.check_syntax
       /\ args.wfp = NULLFP
       /\ created = {}
       /\ ~Dumped
       /\ \A f \in openFiles : f.fd = "r"

\* -o and -B were accepted around -c and the syntax check has ended.
C9_Witness ==
  /\ pc = "done"
  /\ argv = <<T_o_a, T_c, F_ext>> \/ argv = <<T_B_m, F_ext, T_c>>
  /\ Printed("Syntax OK")
  /\ created = {}
  /\ exitCode = EXIT_SUCCESS

\* --------------------------------------------------------------- C10
\* C10 as stated: an argument list holding --version or --copyright ends
\* with exit code 0 and without an input ever being opened or read.
C10_BannerAnywhereExitsZero ==
  (pc = "done" /\ ~NoBannerToken) =>
    /\ exitCode = EXIT_SUCCESS
    /\ args.rfp = NULLFP
    /\ openFiles = {}
    /\ ~Called("compile")

\* C10 amended: the scan never passes a --version or --copyright token;
\* when it reaches one the banner is printed and the process ends there
\* with exit code 0, the compiler never called and no output opened; an
\* input is open then only if an earlier token named the program file.
C10_BannerReachedExitsZero ==
  /\ \A k \in 1..Len(argv) : IsBannerToken(argv[k]) => i <= k
  /\ \A k \in 1..Len(argv) :
       (IsBannerToken(argv[k]) /\ StoppedAt(k)) =>
         /\ pc = "done"
         /\ exitCode = EXIT_SUCCESS
         /\ out # <<>>
         /\ out[Len(out)] = (IF argv[k] = T_version THEN "version" ELSE "copyright")
         /\ calls = <<>>
         /\ args.wfp = NULLFP
         /\ (\A j \in 1..(k - 1) : IsSwitch(argv[j])) => args.rfp = NULLFP

\* --version after an opened program file and before another token.
C10_Witness ==
  /\ pc = "done"
  /\ argv = <<F_ext, T_version, T_bogus>>
  /\ i = 2
  /\ exitCode = EXIT_SUCCESS
  /\ args.rfp = RFile(F_ext)

\* --------------------------------------------------------------- C11
\* The tokens the loop has gone past.
ScannedTokens == {k \in 1..Len(argv) : k < i}
ScannedSwitch(c) == \E k \in ScannedTokens : IsSwitchWith(argv[k], c)
\* parse_args ran to its end (the end of argv or a lone "-") and returned
\* success with an input bound.
ResolutionSucceeded ==
  /\ pc \in {"exit", "compile", "compiled", "done"}
  /\ i > Len(argv) \/ argv[i] = T_dash
  /\ result = EXIT_SUCCESS
  /\ args.rfp # NULLFP
OutputFilesOpen == {f \in openFiles : f.fd = "wb"}

\* C11: when -o- was scanned and resolution succeeds without -c, the output
\* stream is stdout and no output file is opened or created, for a program
\* file as for stdin.
C11_DashOutputIsStdout ==
  (/\ ResolutionSucceeded
   /\ ~args.check_syntax
   /\ \E k \in ScannedTokens : argv[k] = T_o_dash)
    => /\ outfile = T_dash
       /\ args.wfp = stdout
       /\ created = {}
       /\ OutputFilesOpen = {}
       /\ \A k \in 1..Len(calls) : calls[k].op # "compile" => calls[k].wfp = stdout

\* -o- with a program file: the binary dump went to stdout.
C11_Witness ==
  /\ pc = "done"
  /\ argv = <<F_ext, T_o_dash>>
  /\ Called("binary")
  /\ args.wfp = stdout
  /\ created = {}

\* --------------------------------------------------------------- C12
Count(msg) == Cardinality({k \in 1..Len(out) : out[k] = msg})
\* The first -v the loop has gone past, 0 when there is none.
FirstV ==
  LET ks == {k \in ScannedTokens : IsSwitchWith(argv[k], "v")}
  IN IF ks = {} THEN 0 ELSE CHOOSE k \in ks : \A j \in ks : k <= j
\* The scan ended at a --version token.
EndedAtVersion == StoppedAt(i) /\ argv[i] = T_version

\* C12: once a -v has been scanned, the -v tokens have printed the version
\* banner exactly once (a --version token that ends the scan prints its own
\* banner besides), whatever other switches come before or after.
C12_BannerExactlyOnce ==
  FirstV # 0 =>
    Count("version") - (IF EndedAtVersion THEN 1 ELSE 0) = 1

\* --------------------------------------------------------------- C13
\* C13: in syntax-check mode the compile result alone decides the outcome:
\* the compiler is called once; if it rejects the source the exit code is
\* non-zero and "Syntax OK" is never printed; if it accepts it "Syntax OK"
\* is printed exactly once, as the last output, and the exit code is 0.
\* Either way no dump function is called and no output file is created.
C13_SyntaxCheckOutcome ==
  (ResolutionSucceeded /\ args.check_syntax) =>
    /\ created = {}
    /\ args.wfp = NULLFP
    /\ ~Dumped
    /\ pc \in {"exit", "compile"} => (calls = <<>> /\ ~Printed("Syntax OK"))
    /\ pc = "compiled" => (Len(calls) = 1 /\ calls[1].ok /\ ~Printed("Syntax OK"))
    /\ pc = "done" =>
         /\ Len(calls) = 1
         /\ calls[1].op = "compile"
         /\ calls[1].ok =>
              /\ exitCode = EXIT_SUCCESS
              /\ Count("Syntax OK") = 1
              /\ out[Len(out)] = "Syntax OK"
         /\ ~calls[1].ok =>
              /\ exitCode # EXIT_SUCCESS
              /\ ~Printed("Syntax OK")

\* -c on a source the compiler rejects, with -o given: failure, no file.
C13_Witness ==
  /\ pc = "done"
  /\ argv = <<T_c, T_o_a, F_ext>>
  /\ Len(calls) = 1
  /\ ~calls[1].ok
  /\ exitCode = EXIT_FAILURE
  /\ created = {}
  /\ ~Printed("Syntax OK")

\* --------------------------------------------------------------- C14
\* C14 as stated: once a program file is open, scanning a further token
\* changes nothing of the configuration, prints nothing and goes on.
\* (Stated for the later tokens other than the lone "-", whose effect on an
\* open input is C19's subject.)
C14_LaterTokensIgnored ==
  [][(Scanning /\ args.rfp.fd = "r" /\ argv[i] # T_dash) =>
       /\ args' = args
       /\ infile' = infile
       /\ outfile' = outfile
       /\ result' = result
       /\ out' = out
       /\ openFiles' = openFiles
       /\ pc' = "scan"]_vars

\* C14 amended: once a program file is open, a further non-switch token is
\* skipped: the configuration, the open files and the output are unchanged
\* and the scan goes on with the next token.  (Switches after the program
\* file are processed as before it, and a lone "-" rebinds the input.)
C14_LaterFilesIgnored ==
  [][(Scanning /\ args.rfp.fd = "r" /\ ~IsSwitch(argv[i])) =>
       /\ args' = args
       /\ infile' = infile
       /\ outfile' = outfile
       /\ result' = result
       /\ out' = out
       /\ openFiles' = openFiles
       /\ pc' = "scan"
       /\ i' = i + 1]_vars

\* A second program file was passed over and the first is still the input.
C14_Witness ==
  /\ argv = <<F_ext, F_noext, T_g>>
  /\ i = 3
  /\ pc = "scan"
  /\ args.filename = F_ext
  /\ args.rfp = RFile(F_ext)
  /\ openFiles = {RFile(F_ext)}

\* --------------------------------------------------------------- C15
\* What the tokens before position k alone determine.
Before(k, c) == \E j \in 1..(k - 1) : IsSwitchWith(argv[j], c)
VerboseBefore(k) ==
  Before(k, "v") \/ \E j \in 1..(k - 1) : argv[j] = T_verbose
InitnameBefore(k) ==
  LET ks == {j \in 1..(k - 1) : IsSwitchWith(argv[j], "B")}
  IN IF ks = {} THEN NULL
     ELSE Skip(argv[CHOOSE j \in ks : \A h \in ks : h <= j], 2)
OutfileBefore(k) ==
  LET ks == {j \in 1..(k - 1) : IsSwitchWith(argv[j], "o")}
  IN IF ks = {} THEN NULL
     ELSE Skip(argv[CHOOSE j \in ks : \A h \in ks : j <= h], 2)
BannersBefore(k) ==
  LET ks == {j \in 1..(k - 1) : IsSwitchWith(argv[j], "v")}
      first == CHOOSE j \in ks : \A h \in ks : j <= h
  IN IF ks # {} /\ \A j \in 1..(first - 1) : argv[j] # T_verbose
       THEN 1 ELSE 0

\* C15: a lone "-" binds stdin and ends the scan: the loop never goes past
\* it, and from then on the configuration is the one the tokens before it
\* determine; nothing a later token would print is printed, and the run
\* fails only if the output cannot be opened, the compiler rejects the
\* source or the symbol name is rejected.
C15_LoneDashEndsScan ==
  \A k \in 1..Len(argv) :
    argv[k] = T_dash =>
      /\ i <= k
      /\ StoppedAt(k) =>
           /\ infile = T_dash
           /\ args.filename = T_dash
           /\ args.rfp = stdin
           /\ args.check_syntax = Before(k, "c")
           /\ args.debug_info = Before(k, "g")
           /\ args.verbose = VerboseBefore(k)
           /\ args.initname = InitnameBefore(k)
           /\ args.ext = (IF Before(k, "B") THEN C_EXT ELSE RITEBIN_EXT)
           /\ outfile \in {OutfileBefore(k), T_dash}
           /\ (outfile # OutfileBefore(k)) =>
                (pc # "resolve" /\ ~Before(k, "o") /\ ~Before(k, "c"))
           /\ Count("version") = BannersBefore(k)
           /\ Range(out) \subseteq {"version", "cannot open output file",
                                    "usage", "Syntax OK",
                                    "invalid symbol name"}
           /\ Printed("usage") => Printed("cannot open output file")
           /\ (pc = "done" /\ exitCode # EXIT_SUCCESS) =>
                \/ Printed("cannot open output file")
                \/ Printed("invalid symbol name")
                \/ (Len(calls) = 1 /\ ~calls[1].ok)

\* -g, then the lone "-", then an empty -B that is never looked at.
C15_Witness ==
  /\ pc = "done"
  /\ argv = <<T_g, T_dash, T_B>>
  /\ i = 2
  /\ Called("binary")
  /\ exitCode = EXIT_SUCCESS
  /\ out = <<>>

\* --------------------------------------------------------------- C16
\* C16: the compiler is called at most once, first, and only after
\* resolution succeeded, and exactly once by the end of such a run; a dump
\* call is made at most once, only after a compile that succeeded and not
\* in syntax-check mode, and exactly once by the end of such a run; it is
\* mrb_dump_irep_cfunc exactly when a -B was scanned and
\* mrb_dump_irep_binary otherwise; after a failed resolution or compile no
\* call follows, and the run ends with a non-zero exit code.
C16_CompileThenOneDump ==
  /\ Len(calls) <= 2
  /\ calls # <<>> =>
       /\ ResolutionSucceeded
       /\ pc \in {"compiled", "done"}
       /\ calls[1].op = "compile"
       /\ calls[1].filename = args.filename
       /\ calls[1].rfp = args.rfp
       /\ ~calls[1].ok => (Len(calls) = 1 /\ pc = "done"
                           /\ exitCode = EXIT_FAILURE)
       /\ calls[1].ok => (pc = "compiled") = (Len(calls) = 1 /\ exitCode = -1)
  /\ Len(calls) = 2 =>
       /\ pc = "done"
       /\ calls[1].ok
       /\ ~args.check_syntax
       /\ calls[2].op = (IF ScannedSwitch("B") THEN "cfunc" ELSE "binary")
       /\ calls[2].initname = args.initname
       /\ calls[2].wfp = args.wfp
       /\ calls[2].debug_info = args.debug_info
  /\ pc = "done" =>
       /\ ResolutionSucceeded => calls # <<>>
       /\ (calls # <<>> /\ calls[1].ok /\ ~args.check_syntax) => Len(calls) = 2

\* -B was scanned and the run made the compile and then the cfunc call.
C16_Witness ==
  /\ pc = "done"
  /\ argv = <<F_ext, T_B_m>>
  /\ Len(calls) = 2
  /\ calls[1].op = "compile"
  /\ calls[2].op = "cfunc"

\* --------------------------------------------------------------- C17
\* C17: when parse_args has resolved the input to stdin with no -o scanned
\* and not in syntax-check mode, the output path is "-" and the output
\* stream is stdout: no name is derived from "-" and no output file is
\* opened or created.
C17_StdinDefaultsToStdout ==
  (/\ pc \in {"exit", "compile", "compiled", "done"}
   /\ StoppedAt(i)
   /\ argv[i] = T_dash
   /\ ~ScannedSwitch("o")
   /\ ~args.check_syntax)
    => /\ ResolutionSucceeded
       /\ outfile = T_dash
       /\ args.wfp = stdout
       /\ created = {}
       /\ OutputFilesOpen = {}

\* stdin compiled to C source on stdout.
C17_Witness ==
  /\ pc = "done"
  /\ argv = <<T_B_m, T_dash>>
  /\ Called("cfunc")
  /\ calls[2].wfp = stdout
  /\ created = {}

\* --------------------------------------------------------------- C18
\* C18: without -c, an output that is not stdout has been opened (created
\* or truncated) by parse_args before the compiler is called; so a run the
\* compiler fails has created the output file although nothing is dumped
\* into it.
C18_OutputOpenedBeforeCompile ==
  /\ (pc = "compile" /\ ~args.check_syntax) =>
       /\ calls = <<>>
       /\ outfile # NULL
       /\ outfile # T_dash => (outfile \in created /\ args.wfp = WFile(outfile))
  /\ (calls # <<>> /\ ~args.check_syntax /\ outfile # T_dash) =>
       outfile \in created
  /\ (pc = "done" /\ Len(calls) = 1 /\ ~args.check_syntax) =>
       /\ ~calls[1].ok
       /\ ~Dumped
       /\ outfile # T_dash => created = {outfile}

\* The compiler rejected f.r after f.mrb had been created.
C18_Witness ==
  /\ pc = "done"
  /\ argv = <<F_ext>>
  /\ Len(calls) = 1
  /\ ~calls[1].ok
  /\ created = {<<"f", ".", "m", "r", "b">>}
  /\ exitCode = EXIT_FAILURE

\* --------------------------------------------------------------- C19
\* C19: a program file opened as the input stays the input: every file
\* open for reading is the one args.rfp is bound to, under the name in
\* args.filename, so none is dropped without being closed.
C19_OpenInputStaysBound ==
  \A f \in openFiles :
    f.fd = "r" => (args.rfp = f /\ args.filename = f.path)

\* --------------------------------------------------------------- C20
\* What the set of tokens of an ordered list determines, whatever their
\* order.
Has(t) == t \in Range(argv)
GivenOutfile ==
  IF Has(T_o_a) THEN Skip(T_o_a, 2)
  ELSE IF Has(T_o_dash) THEN T_dash ELSE NULL
SetExt == IF Has(T_B_m) THEN C_EXT ELSE RITEBIN_EXT
SetOutfile ==
  IF Has(T_c) \/ GivenOutfile # NULL THEN GivenOutfile ELSE <<"f">> \o SetExt
\* What is printed after the scan, given what the file system, the
\* compiler and the dump function answered.
SetTail ==
  IF result = EXIT_FAILURE THEN <<"cannot open output file", "usage">>
  ELSE IF ~calls[1].ok THEN <<>>
  ELSE IF Has(T_c) THEN <<"Syntax OK">>
  ELSE IF Has(T_B_m) /\ n = MRB_DUMP_INVALID_ARGUMENT
    THEN <<"invalid symbol name">>
  ELSE <<>>
SetExitCode ==
  IF result = EXIT_FAILURE \/ ~calls[1].ok THEN EXIT_FAILURE
  ELSE IF Has(T_c) THEN EXIT_SUCCESS
  ELSE IF Has(T_B_m) /\ n = MRB_DUMP_INVALID_ARGUMENT THEN EXIT_FAILURE
  ELSE EXIT_SUCCESS

\* C20: for every ordering of one program file that opens and at most one
\* each of -o<path>, -B<name>, -c, -g and -v, parse_args leaves the same
\* configuration (input, output path and stream, extension, symbol name,
\* flags), and the run ends with the same calls, output and exit code, as a
\* function of the set of tokens and of what the file system, the compiler
\* and the dump function answer.
C20_OrderIndependent ==
  (/\ argv \in OrderedLists
   /\ pc \in {"exit", "compile", "compiled", "done"}
   /\ args.rfp # NULLFP)
    => /\ i = Len(argv) + 1
       /\ args.filename = F_ext
       /\ infile = F_ext
       /\ args.rfp = RFile(F_ext)
       /\ args.check_syntax = Has(T_c)
       /\ args.debug_info = Has(T_g)
       /\ args.verbose = Has(T_v)
       /\ args.initname = (IF Has(T_B_m) THEN Skip(T_B_m, 2) ELSE NULL)
       /\ args.ext = SetExt
       /\ outfile = SetOutfile
       /\ args.wfp = (IF Has(T_c) \/ result = EXIT_FAILURE THEN NULLFP
                      ELSE IF SetOutfile = T_dash THEN stdout
                      ELSE WFile(SetOutfile))
       /\ result = EXIT_FAILURE => (~Has(T_c) /\ SetOutfile # T_dash)
       /\ created = (IF args.wfp.fd = "wb" THEN {SetOutfile} ELSE {})
       /\ pc = "done" =>
            /\ out = (IF Has(T_v) THEN <<"version">> ELSE <<>>) \o SetTail
            /\ exitCode = SetExitCode
            /\ Len(calls) = (IF result = EXIT_FAILURE THEN 0
                             ELSE IF ~calls[1].ok \/ Has(T_c) THEN 1 ELSE 2)
            /\ \A k \in 1..Len(calls) :
                 calls[k].op = (IF k = 1 THEN "compile"
                                ELSE IF Has(T_B_m) THEN "cfunc" ELSE "binary")
            /\ Len(calls) >= 1 => calls[1].dump_result = Has(T_v)
            /\ Len(calls) = 2 => calls[2].debug_info = Has(T_g)

\* All five switches around the program file, in one of the orderings.
C20_Witness ==
  /\ pc = "done"
  /\ argv = <<T_g, T_o_a, T_c, F_ext, T_B_m, T_v>>
  /\ out = <<"version", "Syntax OK">>
  /\ exitCode = EXIT_SUCCESS
====
